---- MODULE Spec2Model ----
(***************************************************************************)
(* Model of the prozess client (src/client.ts): the wire decoder, the      *)
(* single-connection dispatcher returned by connectRaw, the range          *)
(* aggregator getEventsRaw and the reconnecter.                            *)
(*                                                                         *)
(* TLC integers are 32-bit signed, so an octet is modelled with 7 bits     *)
(* (ByteBase): a 4-octet little-endian field spans 0 .. 2^28-1 and the     *)
(* all-ones field value is VERSION_CONFLICT.  Field widths in octets,      *)
(* byte order and the frame layouts are those of the source.               *)
(***************************************************************************)
EXTENDS Integers, Sequences, FiniteSets, TLC

\* ---------------------------------------------------------------- bounds
MaxSends == 2
MaxFrames == 3
MaxRecs == 2
MaxBatch == 3
MaxDataLen == 1
MaxNotify == 2
MaxSubs == 2
MaxQueries == 1
MaxVer == 2
LogLen == 3
MaxOneshots == 1
SplitAt == 5
WireSends == 1
WireSubs == 1
WireFrames == 3
MaxAttempts == 2

\* ------------------------------------------------------ program constants
ByteBase == 128
VERSION_CONFLICT == 268435455
DEFAULT_SUB_SIZE == 1048576
Hello == 0
Event == 1
EventConfirm == 2
Subscribe == 3
SubscribeEnd == 4
Oneshot == 1
Complete == 2
Current == 4

\* "no error" / the two custom errors of client.ts:9-10
NoErr == "none"
VersionConflictError == "VersionConflict"
ClosedBeforeConfirmError == "ClosedBeforeConfirm"

\* ------------------------------------------------------------ wire codec
\* little-endian encodings used by the server for the fields the cursor reads
U16(v) == <<v % ByteBase, (v \div ByteBase) % ByteBase>>

U32(v) ==
  <<v % ByteBase, (v \div ByteBase) % ByteBase,
    (v \div (ByteBase * ByteBase)) % ByteBase,
    (v \div (ByteBase * ByteBase * ByteBase)) % ByteBase>>

\* a 64-bit field: low word first; the conflict sentinel is all-ones
U64(v) ==
  U32(v) \o (IF v = VERSION_CONFLICT THEN U32(VERSION_CONFLICT) ELSE U32(0))

\* cursor.remain()
remain(b, n) == Len(b) - n

\* cursor.readByte() at offset n (0-based)
readByte(b, n) == b[n + 1]

\* cursor.readUInt16()
readUInt16(b, n) == b[n + 1] + ByteBase * b[n + 2]

\* cursor.readUInt32()
readUInt32(b, n) ==
  b[n + 1] + ByteBase * b[n + 2] + ByteBase * ByteBase * b[n + 3]
    + ByteBase * ByteBase * ByteBase * b[n + 4]

\* cursor.readUInt64(): the low word; the high word is read and ignored
readUInt64(b, n) == readUInt32(b, n)

\* cursor.readBytes(k): Buffer.slice clamps to the buffer's end
readBytes(b, n, k) ==
  SubSeq(b, n + 1, IF n + k > Len(b) THEN Len(b) ELSE n + k)

\* cursor.readEvent(base_version) with the cursor at offset n.
\* res is "null" (too few bytes), "throw" (assert(proto_v === 0) failed)
\* or "evt"; n is the cursor afterwards.
readEvent(b, n, base_version) ==
  IF remain(b, n) < 4 + 4 + 2 + 1 + 1
  THEN [res |-> "null", n |-> n, evt |-> <<>>]
  ELSE LET size == readUInt32(b, n)
           crc32 == readUInt32(b, n + 4)
           batch_size == readUInt16(b, n + 8)
           proto_v == readByte(b, n + 10)
           flags == readByte(b, n + 11)
       IN IF proto_v # 0
          THEN [res |-> "throw", n |-> n + 11, evt |-> <<>>]
          ELSE IF remain(b, n + 12) < size
          THEN [res |-> "null", n |-> n + 12, evt |-> <<>>]
          ELSE [res |-> "evt", n |-> n + 12 + size,
                evt |-> <<[version |-> base_version, crc32 |-> crc32,
                           batch_size |-> batch_size, flags |-> flags,
                           data |-> readBytes(b, n + 12, size)]>>]

\* One record as the server lays it out (the layout readEvent decodes).
EncRec(r) ==
  U32(Len(r.data)) \o U32(r.crc32) \o U16(r.batch_size)
    \o <<r.proto_v, r.flags>> \o r.data

RECURSIVE EncRecs(_)
EncRecs(rs) == IF rs = <<>> THEN <<>> ELSE EncRec(Head(rs)) \o EncRecs(Tail(rs))

\* One inbound frame as the server lays it out (the layouts tryReadOne decodes).
\* f = [t, proto_v, source, version, flags, recs]
EncFrame(f) ==
  CASE f.t = Hello -> <<Hello, f.proto_v>> \o f.source
    [] f.t = Event -> <<Event>> \o EncRecs(f.recs)
    [] f.t = EventConfirm -> <<EventConfirm, f.proto_v>> \o U64(f.version)
    [] f.t = Subscribe ->
         <<Subscribe, f.proto_v>> \o U64(f.version)
           \o U64(Len(EncRecs(f.recs))) \o <<f.flags>> \o EncRecs(f.recs)
    [] f.t = SubscribeEnd -> <<SubscribeEnd, f.proto_v>>
    [] OTHER -> <<f.t>>

Frame(t, source, version, flags, recs) ==
  [t |-> t, proto_v |-> 0, source |-> source, version |-> version,
   flags |-> flags, recs |-> recs]

Rec(batch_size, data) ==
  [crc32 |-> 0, batch_size |-> batch_size, proto_v |-> 0, flags |-> 0,
   data |-> data]

\* ----------------------------------------------------------------- state
VARIABLES
  \* connectRaw closure (client.ts:197-431)
  eventstream_version, subCb, subCbData, resub, oneshotCbs, sendcbs,
  connected, buf, source, onevents, hooks, connectCb,
  \* getEventsRaw closures (client.ts:243-268), one per call
  queries, aggregateData,
  \* reconnecter closure (client.ts:451-611)
  state, client, timer, sendEventQueue, getEventsQueue, getEventsProps,
  supSubCb, wantSubFromV, callbackCalled, apiSource,
  \* the socket and the server behind it
  sock, ended, out, wire, srvSub, helloSent,
  \* what the application and the peer observed
  calls, sublog, evlog, txlog, dispatched, exc,
  \* what the environment did
  emitted, delivered, notified, issued

vars ==
  <<eventstream_version, subCb, subCbData, resub, oneshotCbs, sendcbs,
    connected, buf, source, onevents, hooks, connectCb, queries,
    aggregateData, state, client, timer, sendEventQueue, getEventsQueue,
    getEventsProps, supSubCb, wantSubFromV, callbackCalled, apiSource, sock,
    ended, out, wire, srvSub, helloSent, calls, sublog, evlog, txlog,
    dispatched, exc, emitted, delivered, notified, issued>>

\* The program state as one record, so that a handler and the callbacks it
\* invokes compose as functions from state to state.
Cur ==
  [eventstream_version |-> eventstream_version, subCb |-> subCb,
   subCbData |-> subCbData, resub |-> resub, oneshotCbs |-> oneshotCbs,
   sendcbs |-> sendcbs, connected |-> connected, buf |-> buf,
   source |-> source, onevents |-> onevents, hooks |-> hooks,
   connectCb |-> connectCb, queries |-> queries,
   aggregateData |-> aggregateData, state |-> state, client |-> client,
   timer |-> timer, sendEventQueue |-> sendEventQueue,
   getEventsQueue |-> getEventsQueue, getEventsProps |-> getEventsProps,
   supSubCb |-> supSubCb, wantSubFromV |-> wantSubFromV,
   callbackCalled |-> callbackCalled, apiSource |-> apiSource,
   sock |-> sock, ended |-> ended, out |-> out, calls |-> calls,
   sublog |-> sublog, evlog |-> evlog, txlog |-> txlog,
   dispatched |-> dispatched, exc |-> exc,
   vbefore |-> eventstream_version, rbefore |-> resub]

Commit(s) ==
  \E r \in {s} :
    /\ eventstream_version' = r.eventstream_version
    /\ subCb' = r.subCb
    /\ subCbData' = r.subCbData
    /\ resub' = r.resub
    /\ oneshotCbs' = r.oneshotCbs
    /\ sendcbs' = r.sendcbs
    /\ connected' = r.connected
    /\ buf' = r.buf
    /\ source' = r.source
    /\ onevents' = r.onevents
    /\ hooks' = r.hooks
    /\ connectCb' = r.connectCb
    /\ queries' = r.queries
    /\ aggregateData' = r.aggregateData
    /\ state' = r.state
    /\ client' = r.client
    /\ timer' = r.timer
    /\ sendEventQueue' = r.sendEventQueue
    /\ getEventsQueue' = r.getEventsQueue
    /\ getEventsProps' = r.getEventsProps
    /\ supSubCb' = r.supSubCb
    /\ wantSubFromV' = r.wantSubFromV
    /\ callbackCalled' = r.callbackCalled
    /\ apiSource' = r.apiSource
    /\ sock' = r.sock
    /\ ended' = r.ended
    /\ out' = r.out
    /\ calls' = r.calls
    /\ sublog' = r.sublog
    /\ evlog' = r.evlog
    /\ txlog' = r.txlog
    /\ dispatched' = r.dispatched
    /\ exc' = r.exc

\* an optional value: <<>> is null/undefined, <<x>> is x
Unset == -1

Cb(k, id) == [k |-> k, id |-> id]

Call(op, id, err, v) == [op |-> op, id |-> id, err |-> err, v |-> v]

\* a thrown exception: the rest of the running handler is skipped
Throw(s, what) == [s EXCEPT !.exc = what]

\* Array.prototype.indexOf; 0 when absent (the source's -1)
RECURSIVE indexOfFrom(_, _, _)
indexOfFrom(q, x, i) ==
  IF i > Len(q) THEN 0 ELSE IF q[i] = x THEN i ELSE indexOfFrom(q, x, i + 1)

indexOf(q, x) == indexOfFrom(q, x, 1)

\* Array.prototype.splice(idx, 1) / shift() for idx = 1
RemoveAt(q, i) == SubSeq(q, 1, i - 1) \o SubSeq(q, i + 1, Len(q))

\* ----------------------------------------------- connectRaw: outbound side
\* client.write(msgToBytes(type, msg)): the frame is recorded as written and
\* travels to the server while the socket is writable.
Write(s, t, a, b, c) ==
  LET m == [t |-> t, a |-> a, b |-> b, c |-> c]
  IN [s EXCEPT !.txlog = Append(@, m),
               !.out = IF s.sock = "open" /\ ~s.ended THEN Append(@, m) ELSE @]

subscribeRaw(s, flags, from, maxbytes) == Write(s, Subscribe, flags, from, maxbytes)

\* const subscribe = (from, opts, callback)
subscribe(s, from, optMaxbytes, optOneshot, callback) ==
  LET s1 == [s EXCEPT !.resub = (optMaxbytes = Unset /\ ~optOneshot)]
      maxbytes == IF optMaxbytes = Unset \/ optMaxbytes = 0
                  THEN DEFAULT_SUB_SIZE ELSE optMaxbytes
      flags == IF optOneshot THEN Oneshot ELSE 0
      s2 == subscribeRaw(s1, flags, from, maxbytes)
  IN IF optOneshot THEN [s2 EXCEPT !.oneshotCbs = Append(@, callback)]
     ELSE IF s2.subCb # <<>> THEN Throw(s2, "assert(subCb == null)")
     ELSE [s2 EXCEPT !.subCb = <<callback>>]

\* api.sendRaw(data, opts, callback) of the connection
connSendRaw(s, data, targetVersion, callback) ==
  Write([s EXCEPT !.sendcbs = Append(@, callback)], Event, targetVersion, 0, data)

\* api.close() of the connection: client.end()
connClose(s) == [s EXCEPT !.ended = TRUE]

\* mergeSubCbData(a, b); a is <<>> for null
mergeSubCbData(a, b) ==
  IF a = <<>> THEN b
  ELSE [a[1] EXCEPT !.v_end = b.v_end, !.size = @ + b.size,
                    !.complete = b.complete,
                    !.current = a[1].current \/ b.current,
                    !.events = @ \o b.events]

Ok(s) == s.exc = NoErr

\* ------------------------------------------------- application callbacks
\* the application's callback of a range query: the promise of getEvents,
\* or getVersion's continuation data => data.v_start - 1
appQueryCb(s, cbk, id, data) ==
  IF cbk = "ver"
  THEN [s EXCEPT !.calls = Append(@, Call("getVersion", id, NoErr, data.v_start - 1))]
  ELSE [s EXCEPT !.sublog = Append(@, [op |-> "getEvents", id |-> id, data |-> data])]

\* queryCallback whose reconnecter closure leaves the entry in getEventsQueue
queryCallback_keepQueued(s, qi, data) ==
  LET q == s.queries[qi]
  IN IF q.owner = "sup"
     THEN LET idx == indexOf(s.getEventsQueue, q.pid)
          IN IF idx = 0 THEN Throw(s, "assert(idx >= 0)")
             ELSE appQueryCb(s, s.getEventsProps[q.pid].cbk, q.pid, data)
     ELSE appQueryCb(s, q.owner, qi, data)

\* the callback getEventsRaw was given: the application's, or the closure
\* trySendGetEvents passes for the queue entry pid
queryCallback(s, qi, data) ==
  LET q == s.queries[qi]
  IN IF q.owner = "sup"
     THEN LET idx == indexOf(s.getEventsQueue, q.pid)
          IN IF idx = 0 THEN Throw(s, "assert(idx >= 0)")
             ELSE appQueryCb([s EXCEPT !.getEventsQueue = RemoveAt(@, idx)],
                             s.getEventsProps[q.pid].cbk, q.pid, data)
     ELSE appQueryCb(s, q.owner, qi, data)

\* -------------------------------------------------------- getEventsRaw
\* the while loop of client.ts:259-261
RECURSIVE trim(_, _)
trim(agg, to) ==
  IF Len(agg.events) > 0 /\ agg.events[Len(agg.events)].version < to
  THEN trim([agg EXCEPT !.v_end = agg.events[Len(agg.events)].version,
                        !.events = SubSeq(@, 1, Len(@) - 1)], to)
  ELSE agg

\* the one-shot Subscribe messages written so far, and the one-shot responses
\* dispatched so far
OneshotsWritten(s) ==
  Cardinality({i \in 1..Len(s.txlog) :
                 s.txlog[i].t = Subscribe /\ s.txlog[i].a = Oneshot})

OneshotsRead(s) ==
  Cardinality({i \in 1..Len(s.dispatched) :
                 /\ s.dispatched[i].f.t = Subscribe
                 /\ (s.dispatched[i].f.flags \div Oneshot) % 2 = 1})

\* asked notes the from of every subscribe the call has issued, sent its
\* place among the one-shot requests of the connection
getNext(s, qi, from) ==
  subscribe([s EXCEPT !.queries[qi].asked = Append(@, from),
                      !.queries[qi].sent = Append(@, OneshotsWritten(s) + 1)],
            from,
            s.queries[qi].maxbytes, TRUE, Cb("getNext", qi))

\* getNextCb asking again from the start of the range
getNextCb_fromStart(s0, qi, data) ==
  LET s == [s0 EXCEPT !.queries[qi].got = Append(@, data),
                       !.queries[qi].gotAt = Append(@, OneshotsRead(s0) + 1)]
      q == s.queries[qi]
      agg == mergeSubCbData(s.aggregateData[qi], data)
  IN IF q.to = -1 \/ (q.to >= 0 /\ q.to <= agg.v_end) \/ agg.current
     THEN LET fin == IF q.to > 0 THEN trim(agg, q.to) ELSE agg
          IN queryCallback([s EXCEPT !.aggregateData[qi] = <<fin>>], qi, fin)
     ELSE getNext([s EXCEPT !.aggregateData[qi] = <<agg>>], qi, q.from)

\* the callback getNext passes to subscribe; got notes every response it is
\* handed, gotAt its place among the one-shot responses of the connection
getNextCb(s0, qi, data) ==
  LET s == [s0 EXCEPT !.queries[qi].got = Append(@, data),
                       !.queries[qi].gotAt = Append(@, OneshotsRead(s0) + 1)]
      q == s.queries[qi]
      agg == mergeSubCbData(s.aggregateData[qi], data)
  IN IF q.to = -1 \/ (q.to >= 0 /\ q.to <= agg.v_end) \/ agg.current
     THEN LET fin == IF q.to > 0 THEN trim(agg, q.to) ELSE agg
          IN queryCallback([s EXCEPT !.aggregateData[qi] = <<fin>>], qi, fin)
     ELSE getNext([s EXCEPT !.aggregateData[qi] = <<agg>>], qi, agg.v_end)

\* api.getEventsRaw(from, to, opts, callback) of the connection
connGetEventsRaw(s, from, to, optMaxbytes, owner, pid) ==
  LET qi == Len(s.queries) + 1
      s1 == [s EXCEPT !.queries = Append(@, [from |-> from, to |-> to,
                                             maxbytes |-> optMaxbytes,
                                             owner |-> owner, pid |-> pid,
                                             asked |-> <<>>, got |-> <<>>,
                                             sent |-> <<>>, gotAt |-> <<>>]),
                      !.aggregateData = Append(@, <<>>)]
  IN getNext(s1, qi, from)

\* ----------------------------------------------------------- reconnecter
trySendRaw(s, id) ==
  IF s.client THEN connSendRaw(s, id, 0, Cb("sup", id)) ELSE s

trySendGetEvents(s, pid) ==
  IF s.client
  THEN connGetEventsRaw(s, s.getEventsProps[pid].from, s.getEventsProps[pid].to,
                        Unset, "sup", pid)
  ELSE s

sub(s) ==
  IF s.wantSubFromV = <<>> THEN s
  ELSE IF ~s.client THEN Throw(s, "assert(client)")
  ELSE subscribe([s EXCEPT !.onevents = "sup"], s.wantSubFromV[1], Unset,
                 FALSE, Cb("supsub", 0))

RECURSIVE forEachSend(_, _)
forEachSend(s, q) ==
  IF q = <<>> \/ ~Ok(s) THEN s ELSE forEachSend(trySendRaw(s, Head(q)), Tail(q))

RECURSIVE forEachGetEvents(_, _)
forEachGetEvents(s, q) ==
  IF q = <<>> \/ ~Ok(s) THEN s
  ELSE forEachGetEvents(trySendGetEvents(s, Head(q)), Tail(q))

\* tryConnectCb that reports a connection completed after close() as well
tryConnectCb_reportStopped(s, err, hasClient) ==
  IF s.state = "stopped"
  THEN (IF hasClient
        THEN [connClose(s) EXCEPT !.callbackCalled = TRUE,
                                  !.calls = Append(@, Call("firstConnect", 0, NoErr, 0))]
        ELSE s)
  ELSE IF err # NoErr THEN [s EXCEPT !.state = "waiting", !.timer = "armed"]
  ELSE IF s.client THEN Throw(s, "assert(client == null)")
  ELSE LET s1 == [s EXCEPT !.state = "connected", !.client = TRUE]
           s2 == IF s1.apiSource # <<>> /\ s1.source # s1.apiSource
                 THEN [connClose(s1) EXCEPT !.state = "stopped", !.client = FALSE]
                 ELSE s1
           s3 == sub(s2)
           s4 == forEachSend(s3, s3.sendEventQueue)
           s5 == forEachGetEvents(s4, s4.getEventsQueue)
       IN IF ~Ok(s5) THEN s5
          ELSE IF s5.callbackCalled THEN s5
          ELSE IF ~s5.client THEN Throw(s5, "TypeError: client is null")
          ELSE [s5 EXCEPT !.apiSource = s5.source, !.callbackCalled = TRUE,
                          !.calls = Append(@, Call("firstConnect", 0, NoErr, 0))]

\* the callback tryConnect passes to connectRaw: (err, _client)
tryConnectCb(s, err, hasClient) ==
  IF s.state = "stopped" THEN (IF hasClient THEN connClose(s) ELSE s)
  ELSE IF err # NoErr THEN [s EXCEPT !.state = "waiting", !.timer = "armed"]
  ELSE IF s.client THEN Throw(s, "assert(client == null)")
  ELSE LET s1 == [s EXCEPT !.state = "connected", !.client = TRUE]
           s2 == IF s1.apiSource # <<>> /\ s1.source # s1.apiSource
                 THEN [connClose(s1) EXCEPT !.state = "stopped", !.client = FALSE]
                 ELSE s1
           s3 == sub(s2)
           s4 == forEachSend(s3, s3.sendEventQueue)
           s5 == forEachGetEvents(s4, s4.getEventsQueue)
       IN IF ~Ok(s5) THEN s5
          ELSE IF s5.callbackCalled THEN s5
          ELSE IF ~s5.client THEN Throw(s5, "TypeError: client is null")
          ELSE [s5 EXCEPT !.apiSource = s5.source, !.callbackCalled = TRUE,
                          !.calls = Append(@, Call("firstConnect", 0, NoErr, 0))]

\* ------------------------------------------- connectRaw: inbound side
\* callback(null, api) on Hello: connect()'s promise, or tryConnect's callback
connectCallback(s) ==
  IF s.connectCb = "sup" THEN tryConnectCb(s, NoErr, TRUE)
  ELSE [s EXCEPT !.calls = Append(@, Call("connect", 0, NoErr, 0)),
                 !.hooks = TRUE, !.onevents = "app"]

\* invokeSendCb whose reconnecter closure swallows every error
invokeSendCb_eatAll(s, cb, err, v) ==
  IF cb.k = "sup"
  THEN IF err # NoErr THEN s
       ELSE LET idx == indexOf(s.sendEventQueue, cb.id)
            IN IF idx = 0 THEN Throw(s, "assert(idx >= 0)")
               ELSE [s EXCEPT !.sendEventQueue = RemoveAt(@, idx),
                              !.calls = Append(@, Call("send", cb.id, err, v))]
  ELSE [s EXCEPT !.calls = Append(@, Call("send", cb.id, err, v))]

\* a SendCb: the application's, or the closure trySendRaw passes
invokeSendCb(s, cb, err, v) ==
  IF cb.k = "sup"
  THEN IF err = ClosedBeforeConfirmError THEN s
       ELSE LET idx == indexOf(s.sendEventQueue, cb.id)
            IN IF idx = 0 THEN Throw(s, "assert(idx >= 0)")
               ELSE [s EXCEPT !.sendEventQueue = RemoveAt(@, idx),
                              !.calls = Append(@, Call("send", cb.id, err, v))]
  ELSE [s EXCEPT !.calls = Append(@, Call("send", cb.id, err, v))]

\* a SubCb: the application's, getNext's, or the closure sub() passes
invokeSubCb(s, cb, data) ==
  CASE cb.k = "getNext" -> getNextCb(s, cb.id, data)
    [] cb.k = "supsub" ->
         IF s.supSubCb # <<>>
         THEN [s EXCEPT !.sublog = Append(@, [op |-> "sub", id |-> s.supSubCb[1],
                                              data |-> data]),
                        !.supSubCb = <<>>]
         ELSE s
    [] OTHER -> [s EXCEPT !.sublog = Append(@, [op |-> cb.k, id |-> cb.id,
                                                data |-> data])]

\* onEvents whose reconnecter listener forwards without recording the version
onEvents_noResume(s, evts, resultingVersion) ==
  LET e == [events |-> evts, resultingVersion |-> resultingVersion]
  IN CASE s.onevents = "app" -> [s EXCEPT !.evlog = Append(@, e)]
       [] s.onevents = "sup" -> [s EXCEPT !.evlog = Append(@, e)]
       [] OTHER -> s

onEvents(s, evts, resultingVersion) ==
  LET e == [events |-> evts, resultingVersion |-> resultingVersion]
  IN CASE s.onevents = "app" -> [s EXCEPT !.evlog = Append(@, e)]
       [] s.onevents = "sup" ->
            [s EXCEPT !.wantSubFromV = <<resultingVersion>>,
                      !.evlog = Append(@, e)]
       [] OTHER -> s

onUnsubscribe(s) ==
  LET s1 == [s EXCEPT !.eventstream_version = -1]
  IN IF s1.resub THEN Throw(s1, "assert(resub === false)")
     ELSE IF s1.hooks
     THEN [s1 EXCEPT !.calls = Append(@, Call("onunsubscribe", 0, NoErr, 0))]
     ELSE s1

RECURSIVE failAll(_, _)
failAll(s, cbs) ==
  IF cbs = <<>> \/ ~Ok(s) THEN s
  ELSE failAll(invokeSendCb(s, Head(cbs), ClosedBeforeConfirmError, -1), Tail(cbs))

\* onClose without the connected guard
onClose_unguarded(s) ==
  LET s1 == [s EXCEPT !.connected = FALSE,
                      !.calls = IF s.hooks
                                THEN Append(@, Call("onclose", 0, NoErr, 0))
                                ELSE @]
      s2 == failAll(s1, s1.sendcbs)
  IN IF Ok(s2) THEN [s2 EXCEPT !.sendcbs = <<>>] ELSE s2

onClose(s) ==
  LET s1 == IF s.connected
            THEN [s EXCEPT !.connected = FALSE,
                           !.calls = IF s.hooks
                                     THEN Append(@, Call("onclose", 0, NoErr, 0))
                                     ELSE @]
            ELSE s
      s2 == failAll(s1, s1.sendcbs)
  IN IF Ok(s2) THEN [s2 EXCEPT !.sendcbs = <<>>] ELSE s2

Bit(flags, mask) == (flags \div mask) % 2 = 1

\* readRecs advancing the version by one per record
RECURSIVE readRecs_perRecord(_, _, _, _, _, _)
readRecs_perRecord(b, n, start, size, v_next, events) ==
  IF ~(n - start < size)
  THEN [res |-> "ok", n |-> n, v_next |-> v_next, events |-> events]
  ELSE LET r == readEvent(b, n, v_next)
       IN IF r.res = "evt"
          THEN readRecs_perRecord(b, r.n, start, size, v_next + 1, events \o r.evt)
          ELSE [res |-> IF r.res = "null" THEN "assert(evt)"
                        ELSE "assert(proto_v === 0)",
                n |-> r.n, v_next |-> v_next, events |-> events]

\* the record loop of client.ts:376-384; the cursor is at offset n
RECURSIVE readRecs(_, _, _, _, _, _)
readRecs(b, n, start, size, v_next, events) ==
  IF ~(n - start < size)
  THEN [res |-> "ok", n |-> n, v_next |-> v_next, events |-> events]
  ELSE LET r == readEvent(b, n, v_next)
       IN IF r.res = "evt"
          THEN readRecs(b, r.n, start, size, v_next + r.evt[1].batch_size,
                        events \o r.evt)
          ELSE [res |-> IF r.res = "null" THEN "assert(evt)"
                        ELSE "assert(proto_v === 0)",
                n |-> r.n, v_next |-> v_next, events |-> events]

\* the wire record an Event was decoded from
RecOf(e) ==
  [crc32 |-> e.crc32, batch_size |-> e.batch_size, proto_v |-> 0,
   flags |-> e.flags, data |-> e.data]

RecsOf(evts) == [i \in 1..Len(evts) |-> RecOf(evts[i])]

\* lines 424-425: drop the consumed bytes unless the dispatch threw
\* dispatched records the frame, the stream version and resub at entry (set
\* by tryReadOne), the stream version after the dispatch and what it threw
consume(s, n, f) ==
  LET d == [f |-> f, before |-> s.vbefore, resub |-> s.rbefore,
            after |-> s.eventstream_version, exc |-> s.exc]
  IN IF Ok(s)
     THEN [ok |-> TRUE,
           s |-> [s EXCEPT !.buf = SubSeq(@, n + 1, Len(@)),
                           !.dispatched = Append(@, d)]]
     ELSE [ok |-> FALSE, s |-> [s EXCEPT !.dispatched = Append(@, d)]]

wait(s) == [ok |-> FALSE, s |-> s]

readHello(s) ==
  LET b == s.buf
  IN IF remain(b, 1) < 1 + 8 THEN wait(s)
     ELSE LET proto_v == readByte(b, 1)
              src == readBytes(b, 2, 8)
          IN consume(connectCallback([s EXCEPT !.source = src]), 10,
                     [Frame(Hello, src, 0, 0, <<>>) EXCEPT !.proto_v = proto_v])

\* readEventFrame advancing the stream version by one
readEventFrame_plusOne(s) ==
  LET r == readEvent(s.buf, 1, s.eventstream_version)
  IN CASE r.res = "null" -> wait(s)
       [] r.res = "throw" -> wait(Throw(s, "assert(proto_v === 0)"))
       [] OTHER ->
            LET v == s.eventstream_version + 1
            IN consume(onEvents([s EXCEPT !.eventstream_version = v], r.evt, v),
                       r.n, Frame(Event, <<>>, 0, 0, RecsOf(r.evt)))

readEventFrame(s) ==
  LET r == readEvent(s.buf, 1, s.eventstream_version)
  IN CASE r.res = "null" -> wait(s)
       [] r.res = "throw" -> wait(Throw(s, "assert(proto_v === 0)"))
       [] OTHER ->
            LET v == s.eventstream_version + r.evt[1].batch_size
            IN consume(onEvents([s EXCEPT !.eventstream_version = v], r.evt, v),
                       r.n, Frame(Event, <<>>, 0, 0, RecsOf(r.evt)))

\* readEventConfirm reading the head of sendcbs without removing it
readEventConfirm_peek(s) ==
  LET b == s.buf
  IN IF remain(b, 1) < 1 + 8 THEN wait(s)
     ELSE LET proto_v == readByte(b, 1)
              version == readUInt64(b, 2)
              f == [Frame(EventConfirm, <<>>, version, 0, <<>>)
                      EXCEPT !.proto_v = proto_v]
          IN IF s.sendcbs = <<>>
             THEN consume(Throw(s, "TypeError: cb is not a function"), 10, f)
             ELSE consume(IF version = VERSION_CONFLICT
                          THEN invokeSendCb(s, Head(s.sendcbs), VersionConflictError, -1)
                          ELSE invokeSendCb(s, Head(s.sendcbs), NoErr, version),
                          10, f)

readEventConfirm(s) ==
  LET b == s.buf
  IN IF remain(b, 1) < 1 + 8 THEN wait(s)
     ELSE LET proto_v == readByte(b, 1)
              version == readUInt64(b, 2)
              f == [Frame(EventConfirm, <<>>, version, 0, <<>>)
                      EXCEPT !.proto_v = proto_v]
          IN IF s.sendcbs = <<>>
             THEN consume(Throw(s, "TypeError: cb is not a function"), 10, f)
             ELSE LET cb == Head(s.sendcbs)
                      s1 == [s EXCEPT !.sendcbs = Tail(@)]
                  IN consume(IF version = VERSION_CONFLICT
                             THEN invokeSendCb(s1, cb, VersionConflictError, -1)
                             ELSE invokeSendCb(s1, cb, NoErr, version),
                             10, f)

\* dispatchSubscribe handing a one-shot response to the newest one-shot
\* callback
dispatchSubscribe_newestFirst(s, data) ==
  LET s1 == IF ~data.oneshot
            THEN onEvents([s EXCEPT !.eventstream_version = data.v_end],
                          data.events, data.v_end)
            ELSE s
  IN IF data.oneshot
     THEN IF s1.oneshotCbs = <<>>
          THEN Throw(s1, "TypeError: oneshotCbs.shift() is undefined")
          ELSE invokeSubCb([s1 EXCEPT !.oneshotCbs = SubSeq(@, 1, Len(@) - 1)],
                           s1.oneshotCbs[Len(s1.oneshotCbs)], data)
     ELSE LET acc == mergeSubCbData(s1.subCbData, data)
              s2 == [s1 EXCEPT !.subCbData = <<acc>>]
          IN IF s2.resub /\ ~data.current
             THEN subscribeRaw(s2, 0, s2.eventstream_version, DEFAULT_SUB_SIZE)
             ELSE IF s2.subCb = <<>>
             THEN Throw(s2, "TypeError: subCb is not a function")
             ELSE LET s3 == invokeSubCb(s2, s2.subCb[1], acc)
                      s4 == IF Ok(s3)
                            THEN [s3 EXCEPT !.subCb = <<>>, !.subCbData = <<>>,
                                            !.resub = FALSE]
                            ELSE s3
                  IN IF data.complete /\ Ok(s4) THEN onUnsubscribe(s4) ELSE s4

\* lines 386-412 once the records are decoded
dispatchSubscribe(s, data) ==
  LET s1 == IF ~data.oneshot
            THEN onEvents([s EXCEPT !.eventstream_version = data.v_end],
                          data.events, data.v_end)
            ELSE s
  IN IF data.oneshot
     THEN IF s1.oneshotCbs = <<>>
          THEN Throw(s1, "TypeError: oneshotCbs.shift() is undefined")
          ELSE invokeSubCb([s1 EXCEPT !.oneshotCbs = Tail(@)],
                           Head(s1.oneshotCbs), data)
     ELSE LET acc == mergeSubCbData(s1.subCbData, data)
              s2 == [s1 EXCEPT !.subCbData = <<acc>>]
          IN IF s2.resub /\ ~data.current
             THEN subscribeRaw(s2, 0, s2.eventstream_version, DEFAULT_SUB_SIZE)
             ELSE IF s2.subCb = <<>>
             THEN Throw(s2, "TypeError: subCb is not a function")
             ELSE LET s3 == invokeSubCb(s2, s2.subCb[1], acc)
                      s4 == IF Ok(s3)
                            THEN [s3 EXCEPT !.subCb = <<>>, !.subCbData = <<>>,
                                            !.resub = FALSE]
                            ELSE s3
                  IN IF data.complete /\ Ok(s4) THEN onUnsubscribe(s4) ELSE s4

readSubscribe(s) ==
  LET b == s.buf
  IN IF remain(b, 1) < 1 + 8 + 8 + 1 THEN wait(s)
     ELSE LET proto_v == readByte(b, 1)
              v_start == readUInt64(b, 2)
              size == readUInt64(b, 10)
              flags == readByte(b, 18)
          IN IF remain(b, 19) < size THEN wait(s)
             ELSE LET r == readRecs(b, 19, 19, size, v_start, <<>>)
                      data == [v_start |-> v_start, v_end |-> r.v_next,
                               size |-> size,
                               complete |-> Bit(flags, Complete),
                               oneshot |-> Bit(flags, Oneshot),
                               current |-> Bit(flags, Current),
                               events |-> r.events]
                  IN IF r.res # "ok" THEN wait(Throw(s, r.res))
                     ELSE consume(dispatchSubscribe(s, data), r.n,
                                  [Frame(Subscribe, <<>>, v_start, flags,
                                         RecsOf(r.events))
                                     EXCEPT !.proto_v = proto_v])

readSubscribeEnd(s) ==
  LET b == s.buf
  IN IF remain(b, 1) < 1 THEN wait(s)
     ELSE consume(onUnsubscribe(s), 2,
                  [Frame(SubscribeEnd, <<>>, 0, 0, <<>>)
                     EXCEPT !.proto_v = readByte(b, 1)])

\* tryReadOne: ok is its return value, s the state it leaves
tryReadOne(s0) ==
  IF s0.buf = <<>> THEN wait(s0)
  ELSE LET msgtype == readByte(s0.buf, 0)
           s == [s0 EXCEPT !.vbefore = s0.eventstream_version,
                           !.rbefore = s0.resub]
       IN CASE msgtype = Hello -> readHello(s)
            [] msgtype = Event -> readEventFrame(s)
            [] msgtype = EventConfirm -> readEventConfirm(s)
            [] msgtype = Subscribe -> readSubscribe(s)
            [] msgtype = SubscribeEnd -> readSubscribeEnd(s)
            [] OTHER -> wait(Throw(s, "Invalid message type"))

\* while (1) { if (!tryReadOne()) break }
RECURSIVE readLoop(_)
readLoop(s) ==
  LET r == tryReadOne(s) IN IF r.ok THEN readLoop(r.s) ELSE r.s

\* the data handler replacing the buffer by the chunk
onData_replace(s, data) == readLoop([s EXCEPT !.buf = data])

\* client.on('data', ...)
onData(s, data) == readLoop([s EXCEPT !.buf = @ \o data])

\* ------------------------------------------------------------ environment
ServerSource == <<112, 114, 111, 122, 101, 115, 115, 49>>

\* the payload of the k-th record: sizes 0 .. MaxDataLen occur
DataOf(k) == [i \in 1..(k % (MaxDataLen + 1)) |-> 7]

RecChoices == {Rec(b, DataOf(b)) : b \in 1..MaxBatch}

\* the server's log: records of batch size 1 and MaxBatch in turn
SrvLog == [i \in 1..LogLen |-> Rec(IF i % 2 = 0 THEN MaxBatch ELSE 1, DataOf(i))]

\* the version of the i-th record of the log; LogVersion(LogLen + 1) is the
\* server's head
RECURSIVE LogVersion(_)
LogVersion(i) == IF i <= 1 THEN 0 ELSE LogVersion(i - 1) + SrvLog[i - 1].batch_size

\* the first record at or after version from; LogLen + 1 when there is none
\* or from is -1
LogIndexAt(from) ==
  IF from < 0 THEN LogLen + 1
  ELSE CHOOSE i \in 1..(LogLen + 1) :
         /\ LogVersion(i) >= from \/ i = LogLen + 1
         /\ \A j \in 1..(i - 1) : LogVersion(j) < from

\* frames the server has sent after its greeting
Replies == Len(emitted) - (IF helloSent THEN 1 ELSE 0)

\* no uncaught exception has ended the process
Alive == exc = NoErr

EnvUnchanged ==
  UNCHANGED <<wire, srvSub, helloSent, emitted, delivered, notified, issued>>

\* the server puts frame f on the wire
Emit(f) ==
  /\ wire' = wire \o EncFrame(f)
  /\ emitted' = Append(emitted, f)

\* the application's try/catch around an api call that throws synchronously
Caught(s) ==
  IF Ok(s) THEN s
  ELSE [s EXCEPT !.exc = NoErr, !.calls = Append(@, Call("threw", 0, s.exc, 0))]

\* ------------------------------------------------ operations, with inputs
\* api.sendRaw(data, {}, callback) on the connection
DoSendRaw(max) ==
  /\ Alive /\ hooks /\ issued.send < max
  /\ Commit(connSendRaw(Cur, issued.send + 1, 0, Cb("app", issued.send + 1)))
  /\ issued' = [issued EXCEPT !.send = @ + 1]
  /\ UNCHANGED <<wire, srvSub, helloSent, emitted, delivered, notified>>

\* api.subscribe(from, opts, callback) on the connection
DoSubscribe(max, froms, maxbytes, oneshots) ==
  /\ Alive /\ hooks /\ issued.sub < max
  /\ \E from \in froms, optMaxbytes \in maxbytes, optOneshot \in oneshots :
       Commit(Caught(subscribe(Cur, from, optMaxbytes, optOneshot,
                               Cb(IF optOneshot THEN "oneshot" ELSE "sub",
                                  issued.sub + 1))))
  /\ issued' = [issued EXCEPT !.sub = @ + 1]
  /\ UNCHANGED <<wire, srvSub, helloSent, emitted, delivered, notified>>

\* api.getEvents(from, to) on the connection
DoGetEvents(max, froms, tos) ==
  /\ Alive /\ hooks /\ issued.query < max
  /\ \E from \in froms, to \in tos :
       /\ to >= from
       /\ Commit(connGetEventsRaw(Cur, from, to, Unset, "app", 0))
  /\ issued' = [issued EXCEPT !.query = @ + 1]
  /\ UNCHANGED <<wire, srvSub, helloSent, emitted, delivered, notified>>

\* api.getVersion(): this.getEvents(-1, -1, {maxbytes: 0}).then(...)
DoGetVersion(max) ==
  /\ Alive /\ hooks /\ issued.query < max
  /\ Commit(connGetEventsRaw(Cur, -1, -1, 0, "ver", 0))
  /\ issued' = [issued EXCEPT !.query = @ + 1]
  /\ UNCHANGED <<wire, srvSub, helloSent, emitted, delivered, notified>>

\* api.close() on the connection
DoClose ==
  /\ Alive /\ hooks /\ ~ended
  /\ Commit(connClose(Cur))
  /\ EnvUnchanged

\* the server greets a new connection
DoSrvHello ==
  /\ Alive /\ sock = "open" /\ ~helloSent
  /\ Emit(Frame(Hello, ServerSource, 0, 0, <<>>))
  /\ helloSent' = TRUE
  /\ Commit(Cur)
  /\ UNCHANGED <<srvSub, delivered, notified, issued>>

\* the server answers the oldest request, an Event message
DoSrvConfirm(max, versions) ==
  /\ Alive /\ sock = "open" /\ helloSent /\ Replies < max
  /\ out # <<>> /\ Head(out).t = Event
  /\ \E version \in versions :
       Emit(Frame(EventConfirm, <<>>, version, 0, <<>>))
  /\ Commit([Cur EXCEPT !.out = Tail(@)])
  /\ UNCHANGED <<srvSub, helloSent, delivered, notified, issued>>

\* the server answers the oldest request, a Subscribe message [flags, from,
\* maxbytes]: up to maxrecs records of its log from the first one at or after
\* from (from its head when from is -1), Current when the log's end is reached
DoSrvSubscribe(max, maxrecs, completes) ==
  /\ Alive /\ sock = "open" /\ helloSent /\ Replies < max
  /\ out # <<>> /\ Head(out).t = Subscribe
  /\ LET req == Head(out)
         first == LogIndexAt(req.b)
     IN \E k \in 0..maxrecs, complete \in completes :
          /\ first + k <= LogLen + 1
          /\ req.a = Oneshot => ~complete
          /\ Emit(Frame(Subscribe, <<>>, LogVersion(first),
                        req.a + (IF complete THEN Complete ELSE 0)
                              + (IF first + k = LogLen + 1 THEN Current ELSE 0),
                        [i \in 1..k |-> SrvLog[first + i - 1]]))
          /\ srvSub' = IF req.a = Oneshot THEN srvSub ELSE ~complete
  /\ Commit([Cur EXCEPT !.out = Tail(@)])
  /\ UNCHANGED <<helloSent, delivered, notified, issued>>

\* the server pushes a live event to a subscribed connection
DoSrvEvent(max) ==
  /\ Alive /\ sock = "open" /\ srvSub /\ Replies < max
  /\ \E r \in RecChoices : Emit(Frame(Event, <<>>, 0, 0, <<r>>))
  /\ Commit(Cur)
  /\ UNCHANGED <<srvSub, helloSent, delivered, notified, issued>>

\* the server ends the subscription
DoSrvSubscribeEnd(max) ==
  /\ Alive /\ sock = "open" /\ srvSub /\ Replies < max
  /\ Emit(Frame(SubscribeEnd, <<>>, 0, 0, <<>>))
  /\ srvSub' = FALSE
  /\ Commit(Cur)
  /\ UNCHANGED <<helloSent, delivered, notified, issued>>

\* client.on('data'): the next n bytes of the stream arrive as one chunk
DoDeliver(sizes) ==
  /\ Alive /\ sock = "open" /\ wire # <<>>
  /\ \E n \in sizes \cap (1..Len(wire)) :
       /\ Commit(onData(Cur, SubSeq(wire, 1, n)))
       /\ wire' = SubSeq(wire, n + 1, Len(wire))
       /\ delivered' = delivered + n
  /\ UNCHANGED <<srvSub, helloSent, emitted, notified, issued>>

\* client.on('close' | 'end' | 'error'): all three run onClose; bytes and
\* requests still in flight are lost
DoSocketNotify(max) ==
  /\ Alive /\ sock \in {"open", "dead"} /\ notified < max
  /\ Commit(onClose([Cur EXCEPT !.sock = "dead", !.out = <<>>]))
  /\ wire' = <<>>
  /\ notified' = notified + 1
  /\ issued' = [issued EXCEPT !.atNotify = issued.send]
  /\ UNCHANGED <<srvSub, helloSent, emitted, delivered>>

\* ---------------------------------------------------------- initial states
\* the state once net.connect's callback has run (client.ts:197-321)
ConnInit ==
  /\ eventstream_version = -1
  /\ subCb = <<>> /\ subCbData = <<>> /\ resub = FALSE
  /\ oneshotCbs = <<>> /\ sendcbs = <<>>
  /\ connected = TRUE /\ buf = <<>>
  /\ source = <<>> /\ onevents = "unset" /\ hooks = FALSE
  /\ queries = <<>> /\ aggregateData = <<>>
  /\ sock = "open" /\ ended = FALSE /\ out = <<>> /\ wire = <<>>
  /\ srvSub = FALSE /\ helloSent = FALSE

LogInit ==
  /\ calls = <<>> /\ sublog = <<>> /\ evlog = <<>> /\ txlog = <<>>
  /\ dispatched = <<>> /\ exc = NoErr
  /\ emitted = <<>> /\ delivered = 0 /\ notified = 0
  /\ issued = [send |-> 0, sub |-> 0, query |-> 0, atNotify |-> 0, failed |-> 0]

\* reconnecter state when the connection is used bare
NoSupervisor ==
  /\ state = "none" /\ client = FALSE /\ timer = "none"
  /\ sendEventQueue = <<>> /\ getEventsQueue = <<>> /\ getEventsProps = <<>>
  /\ supSubCb = <<>> /\ wantSubFromV = <<>>
  /\ callbackCalled = FALSE /\ apiSource = <<>>

\* connect(port, hostname): one bare connection
Init ==
  /\ ConnInit /\ LogInit /\ NoSupervisor
  /\ connectCb = "app"

\* ------------------------------------- sends on one bare connection
AppSendRaw == DoSendRaw(MaxSends)

AppClose == DoClose

SrvHello == DoSrvHello

SrvConfirm == DoSrvConfirm(MaxSends, (0..MaxVer) \cup {VERSION_CONFLICT})

Deliver == DoDeliver(1..Len(wire))

SocketNotify == DoSocketNotify(MaxNotify)

NextSend ==
  \/ AppSendRaw
  \/ AppClose
  \/ SrvHello
  \/ SrvConfirm
  \/ Deliver
  \/ SocketNotify

SpecSend == Init /\ [][NextSend]_vars

\* -------------------------- subscriptions on one bare connection
SubSubscribe == DoSubscribe(MaxSubs, {0}, {Unset, 64}, BOOLEAN)

SubSrvHello == DoSrvHello

SubSrvSubscribe == DoSrvSubscribe(MaxFrames, MaxRecs, BOOLEAN)

SubSrvEvent == DoSrvEvent(MaxFrames)

SubSrvSubscribeEnd == DoSrvSubscribeEnd(MaxFrames)

SubDeliver == DoDeliver({Len(wire), SplitAt})

NextSub ==
  \/ SubSubscribe
  \/ SubSrvHello
  \/ SubSrvSubscribe
  \/ SubSrvEvent
  \/ SubSrvSubscribeEnd
  \/ SubDeliver

SpecSub == Init /\ [][NextSub]_vars

\* -------------------------- range queries on one bare connection
QGetEvents == DoGetEvents(MaxQueries, 0..1, 0..(MaxVer + 1))

QGetVersion == DoGetVersion(MaxQueries)

QSubscribe == DoSubscribe(MaxOneshots, {0}, {Unset}, {TRUE})

QSrvHello == DoSrvHello

QSrvSubscribe == DoSrvSubscribe(MaxFrames, MaxRecs, {FALSE})

QDeliver == DoDeliver({Len(wire), SplitAt})

NextQuery ==
  \/ QGetEvents
  \/ QGetVersion
  \/ QSubscribe
  \/ QSrvHello
  \/ QSrvSubscribe
  \/ QDeliver

SpecQuery == Init /\ [][NextQuery]_vars

\* ---------------- every frame type, cut into chunks at any byte
WSendRaw == DoSendRaw(WireSends)

WSubscribe == DoSubscribe(WireSubs, {0}, {Unset, 64}, BOOLEAN)

WSrvConfirm == DoSrvConfirm(WireFrames, {MaxVer, VERSION_CONFLICT})

WSrvSubscribe == DoSrvSubscribe(WireFrames, MaxRecs, {FALSE})

WSrvEvent == DoSrvEvent(WireFrames)

WSrvSubscribeEnd == DoSrvSubscribeEnd(WireFrames)

NextWire ==
  \/ WSendRaw
  \/ WSubscribe
  \/ SrvHello
  \/ WSrvConfirm
  \/ WSrvSubscribe
  \/ WSrvEvent
  \/ WSrvSubscribeEnd
  \/ Deliver

SpecWire == Init /\ [][NextWire]_vars

\* ------------------------------------ sends through the reconnecter
\* reconnecter(port, hostname, cb) has returned: tryConnect() has started the
\* first attempt and no connection exists yet
SupInit ==
  /\ eventstream_version = -1
  /\ subCb = <<>> /\ subCbData = <<>> /\ resub = FALSE
  /\ oneshotCbs = <<>> /\ sendcbs = <<>>
  /\ connected = FALSE /\ buf = <<>>
  /\ source = <<>> /\ onevents = "unset" /\ hooks = FALSE
  /\ queries = <<>> /\ aggregateData = <<>>
  /\ sock = "connecting" /\ ended = FALSE /\ out = <<>> /\ wire = <<>>
  /\ srvSub = FALSE /\ helloSent = FALSE
  /\ LogInit
  /\ connectCb = "sup"
  /\ state = "connecting" /\ client = FALSE /\ timer = "none"
  /\ sendEventQueue = <<>> /\ getEventsQueue = <<>> /\ getEventsProps = <<>>
  /\ supSubCb = <<>> /\ wantSubFromV = <<>>
  /\ callbackCalled = FALSE /\ apiSource = <<>>

\* tryConnect(): started by the retry timer
tryConnect(s) ==
  IF s.state # "waiting" THEN Throw(s, "assert.strictEqual(state, 'waiting')")
  ELSE [s EXCEPT !.state = "connecting", !.sock = "connecting"]

\* reconnecter api.sendRaw(evt, opts, callback)
supSendRaw(s, id) ==
  trySendRaw([s EXCEPT !.sendEventQueue = Append(@, id)], id)

\* supClose leaving the retry timer armed
supClose_keepTimer(s) ==
  LET s1 == IF s.client THEN [connClose(s) EXCEPT !.client = FALSE] ELSE s
  IN [s1 EXCEPT !.state = "stopped"]

\* reconnecter api.close()
supClose(s) ==
  LET s1 == IF s.client THEN [connClose(s) EXCEPT !.client = FALSE] ELSE s
      s2 == IF s1.timer # "none" THEN [s1 EXCEPT !.timer = "none"] ELSE s1
  IN [s2 EXCEPT !.state = "stopped"]

\* net.connect's callback: a fresh connectRaw closure on the new socket
socketConnected(s) ==
  [s EXCEPT !.eventstream_version = -1, !.subCb = <<>>, !.subCbData = <<>>,
            !.resub = FALSE, !.oneshotCbs = <<>>, !.sendcbs = <<>>,
            !.connected = TRUE, !.buf = <<>>, !.source = <<>>,
            !.onevents = "unset", !.hooks = FALSE, !.queries = <<>>,
            !.aggregateData = <<>>, !.sock = "open", !.ended = FALSE,
            !.out = <<>>]

SupSendRaw ==
  /\ Alive /\ connectCb = "sup" /\ issued.send < MaxSends
  /\ Commit(supSendRaw(Cur, issued.send + 1))
  /\ issued' = [issued EXCEPT !.send = @ + 1]
  /\ UNCHANGED <<wire, srvSub, helloSent, emitted, delivered, notified>>

SupClose ==
  /\ Alive /\ connectCb = "sup" /\ state # "stopped"
  /\ Commit(supClose(Cur))
  /\ EnvUnchanged

\* the retry timer fires: setTimeout(tryConnect, retryTimeoutSeconds * 1000)
TimerFire ==
  /\ Alive /\ timer = "armed"
  /\ Commit(tryConnect([Cur EXCEPT !.timer = "fired"]))
  /\ EnvUnchanged

\* the socket fails before connecting: errListener runs callback(err)
ConnectError ==
  /\ Alive /\ sock = "connecting" /\ issued.failed < MaxAttempts
  /\ Commit(tryConnectCb([Cur EXCEPT !.sock = "none"], "ECONNREFUSED", FALSE))
  /\ issued' = [issued EXCEPT !.failed = @ + 1]
  /\ UNCHANGED <<wire, srvSub, helloSent, emitted, delivered, notified>>

\* the socket connects
SocketConnected ==
  /\ Alive /\ sock = "connecting"
  /\ Commit(socketConnected(Cur))
  /\ wire' = <<>> /\ srvSub' = FALSE /\ helloSent' = FALSE
  /\ UNCHANGED <<emitted, delivered, notified, issued>>

SupSrvConfirm == DoSrvConfirm(MaxSends, {MaxVer, VERSION_CONFLICT})

SupDeliver == DoDeliver({Len(wire), SplitAt})

NextSup ==
  \/ SupSendRaw
  \/ SupClose
  \/ TimerFire
  \/ ConnectError
  \/ SocketConnected
  \/ SrvHello
  \/ SupSrvConfirm
  \/ SupDeliver
  \/ SocketNotify

SpecSup == SupInit /\ [][NextSup]_vars

\* the timer fires, a connection attempt ends one way or the other, the
\* server answers and bytes on the wire arrive; the application need not act
FairSup ==
  /\ SpecSup
  /\ WF_vars(TimerFire)
  /\ WF_vars(ConnectError \/ SocketConnected)
  /\ WF_vars(SrvHello)
  /\ WF_vars(SupSrvConfirm)
  /\ WF_vars(SupDeliver)

\* ------------------------------------------------------------ properties
\* the entries of a log that satisfy a test, in order
RECURSIVE SelectSeqOf(_, _, _)
SelectSeqOf(log, Test(_), i) ==
  IF i > Len(log) THEN <<>>
  ELSE (IF Test(log[i]) THEN <<log[i]>> ELSE <<>>) \o SelectSeqOf(log, Test, i + 1)

IsSendCall(c) == c.op = "send"
IsConfirmCall(c) == c.op = "send" /\ c.err # ClosedBeforeConfirmError
IsEventConfirm(d) == d.f.t = EventConfirm

\* how often the callback of send id has been invoked
Invoked(id) == Cardinality({i \in 1..Len(calls) : calls[i].op = "send" /\ calls[i].id = id})

\* whether the connection still holds the callback of send id
Pending(id) == Cardinality({i \in 1..Len(sendcbs) : sendcbs[i].id = id})

ConfirmCalls == SelectSeqOf(calls, IsConfirmCall, 1)
ConfirmFrames == SelectSeqOf(dispatched, IsEventConfirm, 1)

\* C1: on a bare connection the k-th EventConfirm invokes the callback of the
\* k-th send and no other, no callback is invoked twice, a callback not yet
\* invoked is still held by the connection, and every send issued before a
\* close notification ran has been invoked exactly once.
C1_SendsConfirmedInOrderOnce ==
  /\ \A id \in 1..issued.send : Invoked(id) + Pending(id) = 1
  /\ \A id \in 1..issued.atNotify : Invoked(id) = 1
  /\ Len(ConfirmCalls) = Len(ConfirmFrames)
  /\ \A k \in 1..Len(ConfirmCalls) : ConfirmCalls[k].id = k

\* C1 witness: two sends, the first answered by an EventConfirm, the second
\* failed by the close of the connection
C1_Witness ==
  /\ issued.send >= 2
  /\ \E i, j \in 1..Len(calls) :
       /\ calls[i] = Call("send", 1, NoErr, calls[i].v)
       /\ calls[j] = Call("send", 2, ClosedBeforeConfirmError, -1)

\* C9: however many close/end/error notifications fire, the onclose hook runs
\* at most once and before any send is failed; a failed send was pending (it
\* has no other outcome) and is failed once; every send issued before the
\* notification has an outcome, and the pending queue is empty until the next
\* send.
C9_CloseFailsPendingOnce ==
  LET closes == {i \in 1..Len(calls) : calls[i].op = "onclose"}
      fails == {i \in 1..Len(calls) :
                  calls[i].op = "send" /\ calls[i].err = ClosedBeforeConfirmError}
  IN /\ Cardinality(closes) <= 1
     /\ \A i \in fails : \E c \in closes : c < i
     /\ \A i \in fails : Invoked(calls[i].id) = 1
     /\ notified > 0 =>
          /\ \A id \in 1..issued.atNotify : Invoked(id) = 1
          /\ issued.atNotify = issued.send => sendcbs = <<>>

\* C9 witness: after two notifications, one send was confirmed and another was
\* failed with ClosedBeforeConfirm
C9_Witness ==
  /\ notified >= 2
  /\ \E i, j \in 1..Len(calls) :
       /\ calls[i].op = "send" /\ calls[i].err = NoErr
       /\ calls[j].op = "send" /\ calls[j].err = ClosedBeforeConfirmError
       /\ i < j

RECURSIVE SumBatch(_)
SumBatch(recs) ==
  IF recs = <<>> THEN 0 ELSE Head(recs).batch_size + SumBatch(Tail(recs))

IsOneshotFrame(d) == d.f.t = Subscribe /\ Bit(d.f.flags, Oneshot)
IsPersistentFrame(d) == d.f.t = Subscribe /\ ~Bit(d.f.flags, Oneshot)
IsListenerFrame(d) == d.f.t = Event \/ IsPersistentFrame(d)
IsOneshotCall(c) == c.op = "oneshot"

\* C5 as stated: after every Event frame and every Subscribe response the
\* stream version is its value before the frame plus the sum of batch_size
\* over the frame's records.
C5_VersionAdvancesBySum ==
  \A i \in 1..Len(dispatched) :
    LET d == dispatched[i]
    IN d.f.t \in {Event, Subscribe} /\ d.exc = NoErr =>
         d.after = d.before + SumBatch(d.f.recs)

\* C5 amended: an Event frame advances the stream version by its record's
\* batch_size; a persistent Subscribe response sets it to v_start plus the sum
\* of batch_size over its records, whatever it was before, and a Complete one
\* that is delivered to the subscription callback then resets it to -1; a
\* one-shot Subscribe response leaves it unchanged.
C5_VersionPerFrameKind ==
  \A i \in 1..Len(dispatched) :
    LET d == dispatched[i]
    IN d.exc = NoErr =>
         /\ d.f.t = Event => d.after = d.before + SumBatch(d.f.recs)
         /\ IsOneshotFrame(d) => d.after = d.before
         /\ IsPersistentFrame(d) =>
              d.after = IF Bit(d.f.flags, Complete)
                           /\ ~(d.resub /\ ~Bit(d.f.flags, Current))
                        THEN -1
                        ELSE d.f.version + SumBatch(d.f.recs)

\* C5 witness: a persistent response with records that arrived when the
\* stream version was not its v_start, then a live Event frame
C5_Witness ==
  \E i, j \in 1..Len(dispatched) :
    /\ i < j
    /\ IsPersistentFrame(dispatched[i]) /\ dispatched[i].f.recs # <<>>
    /\ dispatched[i].before # dispatched[i].f.version
    /\ dispatched[i].exc = NoErr
    /\ dispatched[j].f.t = Event /\ dispatched[j].exc = NoErr

\* the versions reported for decoded events run from v0 by batch sizes, and
\* the events are the records recs
Chain(events, v0, recs) ==
  /\ Len(events) = Len(recs)
  /\ \A i \in 1..Len(events) :
       /\ events[i].version = v0 + SumBatch(SubSeq(recs, 1, i - 1))
       /\ events[i].batch_size = recs[i].batch_size

ListenerFrames == SelectSeqOf(dispatched, IsListenerFrame, 1)
OneshotFrames == SelectSeqOf(dispatched, IsOneshotFrame, 1)
OneshotCalls == SelectSeqOf(sublog, IsOneshotCall, 1)

\* C6: in every Subscribe response the version reported for record i is
\* v_start plus the batch sizes of the records before it, the accumulator's
\* v_end is v_start plus all batch sizes, and a persistent response hands the
\* live-event listener that v_end as the resulting version.
C6_VersionsFromVStart ==
  /\ Len(evlog) = Len(ListenerFrames)
  /\ \A j \in 1..Len(evlog) :
       LET d == ListenerFrames[j]
       IN IsPersistentFrame(d) =>
            /\ Chain(evlog[j].events, d.f.version, d.f.recs)
            /\ evlog[j].resultingVersion = d.f.version + SumBatch(d.f.recs)
  /\ Len(OneshotCalls) = Len(OneshotFrames)
  /\ \A k \in 1..Len(OneshotCalls) :
       LET d == OneshotFrames[k]
           data == OneshotCalls[k].data
       IN /\ data.v_start = d.f.version
          /\ Chain(data.events, d.f.version, d.f.recs)
          /\ data.v_end = d.f.version + SumBatch(d.f.recs)

\* C6 witness: the listener got the records of batch size 1 and 3 from
\* v_start 0 as versions 0 and 1 with resulting version 4
C6_Witness ==
  \E j \in 1..Len(evlog) :
    /\ Len(evlog[j].events) = 2
    /\ evlog[j].events[1].version = 0 /\ evlog[j].events[1].batch_size = 1
    /\ evlog[j].events[2].version = 1 /\ evlog[j].events[2].batch_size = 3
    /\ evlog[j].resultingVersion = 4

\* C4 as stated: getEvents(from, to) with to >= from >= 0 hands its callback
\* no event of version >= to and none below the v_start of the first response.
C4_EventsWithinRange ==
  \A i \in 1..Len(sublog) :
    LET c == sublog[i]
    IN c.op = "getEvents" /\ queries[c.id].to >= queries[c.id].from
         /\ queries[c.id].from >= 0 =>
         \A e \in 1..Len(c.data.events) :
           /\ c.data.events[e].version < queries[c.id].to
           /\ c.data.events[e].version >= c.data.v_start

\* the Subscribe messages written with from = -1 (only getVersion does)
HeadRequests == {i \in 1..Len(txlog) : txlog[i].t = Subscribe /\ txlog[i].b = -1}

\* C8 as stated: getVersion() writes exactly one one-shot Subscribe request
\* with from -1 and maxbytes 0, and resolves to the response's v_start - 1.
C8_GetVersionRequest ==
  /\ Cardinality(HeadRequests)
       = Cardinality({q \in 1..Len(queries) : queries[q].owner = "ver"})
  /\ \A i \in HeadRequests : txlog[i].a = Oneshot /\ txlog[i].c = 0
  /\ \A i \in 1..Len(calls) :
       calls[i].op = "getVersion" =>
         \E k \in 1..Len(OneshotFrames) : calls[i].v = OneshotFrames[k].f.version - 1

\* the bytes of the first i frames the server sent
RECURSIVE StreamUpTo(_)
StreamUpTo(i) == IF i = 0 THEN <<>> ELSE StreamUpTo(i - 1) \o EncFrame(emitted[i])

\* the frames whose last byte has been delivered
Arrived == Cardinality({i \in 1..Len(emitted) : Len(StreamUpTo(i)) <= delivered})

\* C7: however the stream is cut into chunks, the frames dispatched are the
\* frames whose last byte has arrived, in order and as the server sent them
\* (what one chunk of the same bytes dispatches); the bytes of an incomplete
\* frame stay in the buffer, unconsumed, and dispatch nothing.
C7_ChunkingInvisible ==
  /\ Len(dispatched) <= Arrived
  /\ \A i \in 1..Len(dispatched) : dispatched[i].f = emitted[i]
  /\ Alive =>
       /\ Len(dispatched) = Arrived
       /\ buf = SubSeq(StreamUpTo(Len(emitted)), Len(StreamUpTo(Arrived)) + 1,
                       delivered)

\* C7 witness: after the Hello and another frame were dispatched, part of the
\* next frame is waiting in the buffer
C7_Witness ==
  /\ Alive /\ Len(dispatched) >= 2 /\ dispatched[1].f.t = Hello
  /\ buf # <<>> /\ Len(emitted) > Len(dispatched)
  /\ Len(buf) < Len(EncFrame(emitted[Len(dispatched) + 1]))

\* the connection of a connected reconnecter has dropped
Dropped == state = "connected" /\ sock = "dead"

\* C2 as stated: when the reconnecter is connected and its connection drops,
\* it leaves connected and starts a new connection attempt (unless close()
\* stops it).
C2_ReconnectsAfterDrop == Dropped ~> (state \in {"connecting", "stopped"})

InQueue(id) == indexOf(sendEventQueue, id) # 0

\* C3 as stated: the sends unconfirmed when the connection drops are all
\* confirmed to the application after the reconnect, each once, and no
\* callback is invoked twice.
C3_UnconfirmedSendsReplayed ==
  /\ \A id \in 1..MaxSends :
       (Dropped /\ InQueue(id)) ~> (Invoked(id) = 1 \/ state = "stopped")
  /\ [](\A id \in 1..MaxSends : Invoked(id) <= 1)

IsEventMsg(m) == m.t = Event
EventTx == SelectSeqOf(txlog, IsEventMsg, 1)

Conflicted(id) ==
  \E i \in 1..Len(calls) : calls[i] = Call("send", id, VersionConflictError, -1)

Transmissions(id) == Cardinality({i \in 1..Len(txlog) : txlog[i].t = Event /\ txlog[i].c = id})

C10_Outcome ==
  /\ Len(ConfirmCalls) = Len(ConfirmFrames)
  /\ \A k \in 1..Len(ConfirmCalls) :
       /\ ConfirmCalls[k].id = EventTx[k].c
       /\ IF ConfirmFrames[k].f.version = VERSION_CONFLICT
          THEN ConfirmCalls[k].err = VersionConflictError
          ELSE ConfirmCalls[k].err = NoErr
                 /\ ConfirmCalls[k].v = ConfirmFrames[k].f.version
  /\ \A id \in 1..issued.send : Conflicted(id) => ~InQueue(id) /\ Invoked(id) = 1

\* C10: an EventConfirm carrying VERSION_CONFLICT hands the oldest pending
\* send a VersionConflict error and any other value hands it that version;
\* through the reconnecter the application callback gets that outcome, the
\* conflicted send leaves sendEventQueue and is never written again.
C10_VersionConflictNotRetried ==
  [][/\ C10_Outcome'
     /\ \A id \in 1..issued.send :
          Conflicted(id) => Transmissions(id)' = Transmissions(id)]_vars

\* C10 witness: through the reconnecter one send was rejected with
\* VersionConflict and a later one confirmed
C10_Witness ==
  /\ connectCb = "sup"
  /\ Conflicted(1)
  /\ \E i \in 1..Len(calls) : calls[i] = Call("send", 2, NoErr, MaxVer)

\* ------------------- sends and range queries through the reconnecter
\* reconnecter api.getEventsRaw(from, to, opts, callback); cbk is the
\* continuation getEvents or getVersion attached
supGetEventsRaw(s, from, to, cbk) ==
  LET pid == Len(s.getEventsProps) + 1
  IN trySendGetEvents(
       [s EXCEPT !.getEventsProps = Append(@, [from |-> from, to |-> to,
                                               cbk |-> cbk]),
                 !.getEventsQueue = Append(@, pid)], pid)

\* api.getEvents(from, to) on the reconnecter
SupGetEvents ==
  /\ Alive /\ connectCb = "sup" /\ issued.query < MaxQueries
  /\ \E from \in {0}, to \in {1, LogLen} :
       Commit(supGetEventsRaw(Cur, from, to, "app"))
  /\ issued' = [issued EXCEPT !.query = @ + 1]
  /\ UNCHANGED <<wire, srvSub, helloSent, emitted, delivered, notified>>

SupSrvSubscribe == DoSrvSubscribe(MaxFrames, MaxRecs, {FALSE})

NextSupQ ==
  \/ SupSendRaw
  \/ SupGetEvents
  \/ SupClose
  \/ TimerFire
  \/ ConnectError
  \/ SocketConnected
  \/ SrvHello
  \/ SupSrvConfirm
  \/ SupSrvSubscribe
  \/ SupDeliver
  \/ SocketNotify

SpecSupQ == SupInit /\ [][NextSupQ]_vars

\* whether the reconnecter still queues range query pid
QInQueue(pid) == indexOf(getEventsQueue, pid) # 0

\* how often the application callback of range query pid has been invoked
QInvoked(pid) ==
  Cardinality({i \in 1..Len(sublog) :
                 sublog[i].op = "getEvents" /\ sublog[i].id = pid})

\* C11: through the reconnecter a send or a range query is in its queue
\* exactly when its application callback has not been invoked; no application
\* callback is invoked twice or with ClosedBeforeConfirm, and no entry is
\* queued twice.
C11_QueuedUntilInvoked ==
  /\ \A id \in 1..issued.send :
       /\ Invoked(id) <= 1
       /\ InQueue(id) <=> Invoked(id) = 0
       /\ Cardinality({i \in 1..Len(sendEventQueue) : sendEventQueue[i] = id}) <= 1
  /\ \A pid \in 1..Len(getEventsProps) :
       /\ QInvoked(pid) <= 1
       /\ QInQueue(pid) <=> QInvoked(pid) = 0
       /\ Cardinality({i \in 1..Len(getEventsQueue) : getEventsQueue[i] = pid}) <= 1
  /\ \A i \in 1..Len(calls) :
       calls[i].op = "send" => calls[i].err # ClosedBeforeConfirmError
  /\ Len(sendEventQueue) + Len(getEventsQueue)
       + Cardinality({i \in 1..Len(calls) : calls[i].op = "send"})
       + Cardinality({i \in 1..Len(sublog) : sublog[i].op = "getEvents"})
       = issued.send + Len(getEventsProps)

\* C11 witness: the first send was confirmed and a range query answered, and
\* the second send, written and then failed by the close of the connection,
\* is still queued
C11_Witness ==
  /\ connectCb = "sup" /\ notified > 0
  /\ Invoked(1) = 1 /\ ~InQueue(1)
  /\ Transmissions(2) = 1 /\ InQueue(2) /\ sendcbs = <<>>
  /\ QInvoked(1) = 1 /\ ~QInQueue(1)

\* ------------------------- the identity check of the reconnecter
\* a source other than the server's, remembered from an earlier session
OtherSource == <<112, 114, 111, 122, 101, 115, 115, 50>>

\* reconnecter api.subscribe(from, opts, callback)
supSubscribe(s, from, id) ==
  IF s.wantSubFromV # <<>> THEN Throw(s, "assert(wantSubFromV === null)")
  ELSE LET s1 == [s EXCEPT !.wantSubFromV = <<from>>, !.supSubCb = <<id>>]
       IN IF s1.client THEN sub(s1) ELSE s1

\* the application stores a source in the public field api.source of the
\* object reconnecter() returned, before any frame has been read
IdSetSource ==
  /\ Alive /\ connectCb = "sup" /\ apiSource = <<>> /\ dispatched = <<>>
  /\ \E src \in {ServerSource, OtherSource} :
       Commit([Cur EXCEPT !.apiSource = src])
  /\ EnvUnchanged

IdSubscribe ==
  /\ Alive /\ connectCb = "sup" /\ issued.sub < MaxSubs
  /\ Commit(Caught(supSubscribe(Cur, 0, issued.sub + 1)))
  /\ issued' = [issued EXCEPT !.sub = @ + 1]
  /\ UNCHANGED <<wire, srvSub, helloSent, emitted, delivered, notified>>

NextId ==
  \/ IdSetSource
  \/ IdSubscribe
  \/ SupSendRaw
  \/ SupClose
  \/ TimerFire
  \/ ConnectError
  \/ SocketConnected
  \/ SrvHello
  \/ SupDeliver

SpecId == SupInit /\ [][NextId]_vars

\* a connection whose greeting carried a source other than the one already
\* stored in api.source has completed
Mismatched ==
  /\ apiSource # <<>>
  /\ \E i \in 1..Len(dispatched) :
       dispatched[i].f.t = Hello /\ dispatched[i].f.source # apiSource

HelloDispatched ==
  /\ Len(dispatched') = Len(dispatched) + 1
  /\ dispatched'[Len(dispatched')].f.t = Hello

\* C13: once close() has stopped the reconnecter it stays stopped with no
\* client and no armed timer, no connection attempt starts, nothing is
\* written (no queued request is replayed, no later one transmitted), and a
\* connection attempt that was in flight and then completes is closed.
C13_CloseIsFinal ==
  [][state = "stopped" =>
       /\ state' = "stopped" /\ ~client' /\ timer' # "armed"
       /\ sock' = "connecting" => sock = "connecting"
       /\ txlog' = txlog
       /\ HelloDispatched => ended' /\ exc' = NoErr]_vars

\* C13 witness: close() was called while the first attempt was in flight and a
\* send was queued; the attempt then completed and its connection was closed
\* with the send still queued and never written
C13_Witness ==
  /\ state = "stopped" /\ ~client /\ ended
  /\ \E i \in 1..Len(dispatched) : dispatched[i].f.t = Hello
  /\ sendEventQueue # <<>> /\ txlog = <<>>

\* the socket of the attempt in flight connected and was then torn down
\* before the greeting was dispatched
TornDownBeforeHello == state = "connecting" /\ sock = "dead"

\* C14 as stated: a connection attempt that is torn down before it reaches a
\* Hello returns the reconnecter to waiting (from where it retries); it does
\* not stay in connecting unless close() stops it.
C14_FailedAttemptRetried == TornDownBeforeHello ~> (state # "connecting")

\* the step was an api call that failed by assertion
Rejected ==
  /\ Len(calls') = Len(calls) + 1
  /\ calls'[Len(calls')].op = "threw"

\* C15 as stated: a persistent subscribe issued while the callback of an
\* earlier one is outstanding fails by assertion, and the rejected call writes
\* no Subscribe frame and leaves the outstanding callback, the accumulator and
\* the auto-resubscribe mode as they were.
C15_RejectedSubscribeHasNoEffect ==
  [][Rejected =>
       /\ subCb # <<>> /\ subCb' = subCb /\ oneshotCbs' = oneshotCbs
       /\ subCbData' = subCbData
       /\ txlog' = txlog
       /\ resub' = resub]_vars

\* ------------------------------- frames that violate the protocol
\* a message type the client does not know
UnknownType == 5

\* the server greets with an embedded protocol version that may not be 0
BadSrvHello ==
  /\ Alive /\ sock = "open" /\ ~helloSent
  /\ \E v \in 0..1 :
       Emit([Frame(Hello, ServerSource, 0, 0, <<>>) EXCEPT !.proto_v = v])
  /\ helloSent' = TRUE
  /\ Commit(Cur)
  /\ UNCHANGED <<srvSub, delivered, notified, issued>>

\* the server confirms the oldest send with an embedded protocol version that
\* may not be 0
BadSrvConfirm ==
  /\ Alive /\ sock = "open" /\ helloSent /\ Replies < MaxSends
  /\ out # <<>> /\ Head(out).t = Event
  /\ \E v \in 0..1 :
       Emit([Frame(EventConfirm, <<>>, MaxVer, 0, <<>>) EXCEPT !.proto_v = v])
  /\ Commit([Cur EXCEPT !.out = Tail(@)])
  /\ UNCHANGED <<srvSub, helloSent, delivered, notified, issued>>

\* the server sends a frame of an unknown message type
BadSrvFrame ==
  /\ Alive /\ sock = "open" /\ helloSent /\ Replies < MaxSends
  /\ Emit(Frame(UnknownType, <<>>, 0, 0, <<>>))
  /\ Commit(Cur)
  /\ UNCHANGED <<srvSub, helloSent, delivered, notified, issued>>

NextBad ==
  \/ SupSendRaw
  \/ TimerFire
  \/ ConnectError
  \/ SocketConnected
  \/ BadSrvHello
  \/ BadSrvConfirm
  \/ BadSrvFrame
  \/ SupDeliver

SpecBad == SupInit /\ [][NextBad]_vars

\* C16 as stated: a frame whose embedded protocol version byte is not 0 is not
\* dispatched as a valid message, and a frame of unknown type or wrong
\* protocol version tears the connection down and is reported like a connect
\* failure, so that the reconnecter is waiting to retry; no exception escapes
\* the data handler instead.
C16_ViolationTearsDown ==
  /\ \A i \in 1..Len(dispatched) :
       dispatched[i].f.proto_v # 0 => dispatched[i].exc # NoErr
  /\ exc # NoErr => ended /\ state = "waiting" /\ timer = "armed"

\* how often the first-connect callback has been invoked
FirstConnects ==
  Cardinality({i \in 1..Len(calls) : calls[i].op = "firstConnect"})

\* C17: the first-connect callback is invoked at most once and without an
\* error, in the step that dispatches the Hello of the first connection to
\* complete while the reconnecter is connecting (so not after close() and not
\* on a failed attempt), and the source it reports is that connection's.
C17_FirstConnectOnce ==
  [][/\ FirstConnects' <= 1
     /\ callbackCalled' <=> FirstConnects' = 1
     /\ FirstConnects' > FirstConnects =>
          /\ ~callbackCalled /\ state = "connecting" /\ state' = "connected"
          /\ HelloDispatched
          /\ \A i \in 1..Len(dispatched) : dispatched[i].f.t # Hello
          /\ calls'[Len(calls')] = Call("firstConnect", 0, NoErr, 0)
          /\ apiSource' = source'
          /\ source' = dispatched'[Len(dispatched')].f.source]_vars

\* C17 witness: the first attempt failed, a later one completed and the
\* first-connect callback was invoked; close() was called afterwards
C17_Witness ==
  /\ issued.failed >= 1 /\ FirstConnects = 1
  /\ apiSource = ServerSource /\ state = "stopped"

\* the reconnecter has no live connection: none yet, or its socket is dead
NoLiveConnection == ~client \/ sock # "open"

\* the step was a sendRaw call on the reconnecter
SendIssued == issued'.send = issued.send + 1

\* C18 as stated: a send issued on the reconnecter while it has no live
\* connection is only appended to sendEventQueue: nothing is written and no
\* callback is handed to a connection.
C18_BufferedWhileDisconnected ==
  [][SendIssued /\ NoLiveConnection =>
       /\ sendEventQueue' = Append(sendEventQueue, issued'.send)
       /\ txlog' = txlog
       /\ sendcbs' = sendcbs]_vars

\* ----------------------------- a subscription through the reconnecter
\* api.subscribe(from, {}, callback) on the reconnecter; the call and its from
\* are noted in calls
ResSubscribe ==
  /\ Alive /\ connectCb = "sup" /\ issued.sub < MaxSubs
  /\ \E from \in 0..1 :
       Commit(Caught([supSubscribe(Cur, from, issued.sub + 1) EXCEPT
                        !.calls = Append(@, Call("subscribe", issued.sub + 1,
                                                 NoErr, from))]))
  /\ issued' = [issued EXCEPT !.sub = @ + 1]
  /\ UNCHANGED <<wire, srvSub, helloSent, emitted, delivered, notified>>

ResSrvSubscribe == DoSrvSubscribe(MaxFrames, MaxRecs, {FALSE})

ResSrvEvent == DoSrvEvent(MaxFrames)

NextRes ==
  \/ ResSubscribe
  \/ TimerFire
  \/ ConnectError
  \/ SocketConnected
  \/ SrvHello
  \/ ResSrvSubscribe
  \/ ResSrvEvent
  \/ SupDeliver

SpecRes == SupInit /\ [][NextRes]_vars

\* the from of the subscribe call the reconnecter accepted
AcceptedFrom ==
  LET i == CHOOSE i \in 1..Len(calls) :
             /\ calls[i].op = "subscribe"
             /\ \A j \in 1..(i - 1) : calls[j].op # "subscribe"
  IN calls[i].v

\* the batch the connection's listener is handed for a dispatched frame
BatchOf(d, e) ==
  /\ e.resultingVersion = d.after
  /\ IF d.f.t = Event
     THEN Chain(e.events, d.before, d.f.recs)
     ELSE /\ Chain(e.events, d.f.version, d.f.recs)
          /\ d.after = d.f.version + SumBatch(d.f.recs)

\* the Subscribe messages written for a persistent subscription
IsPersistentTx(m) == m.t = Subscribe /\ m.a = 0
PersistentTx == SelectSeqOf(txlog, IsPersistentTx, 1)

\* the step ran sub(): in api.subscribe or when a connection completed, a
\* persistent Subscribe message was written
SupervisorSubscribed ==
  /\ issued'.sub # issued.sub \/ HelloDispatched
  /\ Len(PersistentTx') > Len(PersistentTx)

\* C19: while a subscription is wanted, wantSubFromV is the resulting version
\* of the last batch forwarded to the application, or the caller's from when
\* none was; every batch the connection delivers for an Event frame or a
\* persistent Subscribe response is forwarded with its events and resulting
\* version; and the persistent Subscribe message the reconnecter writes in
\* sub() has from equal to wantSubFromV.
C19_ResumeVersionTracksBatches ==
  [][/\ wantSubFromV' # <<>> =>
          wantSubFromV'[1] = IF evlog' = <<>> THEN AcceptedFrom'
                             ELSE evlog'[Len(evlog')].resultingVersion
     /\ Len(evlog') = Len(ListenerFrames')
     /\ \A j \in 1..Len(evlog') : BatchOf(ListenerFrames'[j], evlog'[j])
     /\ SupervisorSubscribed =>
          /\ wantSubFromV' # <<>>
          /\ PersistentTx'[Len(PersistentTx')].b = wantSubFromV'[1]]_vars

\* C19 witness: subscribe(1) was called before the connection completed; the
\* Subscribe message was written with from 1, a response with records and then
\* a live event were forwarded, and the resume version moved on with them
C19_Witness ==
  /\ Len(PersistentTx) >= 1 /\ PersistentTx[1].b = 1
  /\ Len(evlog) >= 2
  /\ evlog[1].events # <<>>
  /\ dispatched[Len(dispatched)].f.t = Event
  /\ wantSubFromV = <<evlog[Len(evlog)].resultingVersion>>
  /\ wantSubFromV[1] > evlog[1].resultingVersion

\* how often the callback of the getEventsRaw call qi has been invoked
Answered(qi) ==
  Cardinality({i \in 1..Len(sublog) :
                 sublog[i].op = "getEvents" /\ sublog[i].id = qi})
  + Cardinality({i \in 1..Len(calls) :
                   calls[i].op = "getVersion" /\ calls[i].id = qi})

\* the events of the first k responses, one after the other
RECURSIVE EventsUpTo(_, _)
EventsUpTo(got, k) ==
  IF k = 0 THEN <<>> ELSE EventsUpTo(got, k - 1) \o got[k].events

\* the stop test of getEventsRaw after the first k responses
StopsAfter(q, k) ==
  \/ q.to = -1
  \/ q.to >= 0 /\ q.to <= q.got[k].v_end
  \/ \E j \in 1..k : q.got[j].current

\* every event's version is the version of the one before plus the batch
\* size of the one before
Contiguous(events) ==
  \A i \in 2..Len(events) :
    events[i].version = events[i - 1].version + events[i - 1].batch_size

\* C20: a getEventsRaw call invokes its callback once, at the first response
\* after which to is -1, or 0 <= to <= the accumulated v_end, or a response
\* was current; every earlier response is followed by exactly one further
\* one-shot subscribe from the accumulated v_end; the accumulated events are
\* contiguous and the callback's v_start is that of the first response.
C20_AggregatesUntilStop ==
  \A qi \in 1..Len(queries) :
    LET q == queries[qi]
        n == Len(q.got)
    IN /\ Answered(qi) <= 1
       /\ Len(q.asked) = n + (IF Answered(qi) = 0 THEN 1 ELSE 0)
       /\ q.asked[1] = q.from
       /\ \A k \in 1..n :
            /\ StopsAfter(q, k) <=> (k = n /\ Answered(qi) = 1)
            /\ k < n => q.asked[k + 1] = q.got[k].v_end
       /\ Contiguous(EventsUpTo(q.got, n))
       /\ \A i \in 1..Len(sublog) :
            sublog[i].op = "getEvents" /\ sublog[i].id = qi =>
              /\ sublog[i].data.v_start = q.got[1].v_start
              /\ Contiguous(sublog[i].data.events)

\* C20 witness: a range query was answered after two responses, the second
\* asked for from the v_end of the first, and both carried events
C20_Witness ==
  \E qi \in 1..Len(queries) :
    /\ Answered(qi) = 1 /\ Len(queries[qi].got) = 2
    /\ queries[qi].got[1].events # <<>> /\ queries[qi].got[2].events # <<>>
    /\ queries[qi].asked[2] = queries[qi].got[1].v_end
    /\ queries[qi].asked[2] # queries[qi].from

\* events is what is left of all after dropping its trailing events of
\* version above to, and v_end the version of the first one dropped
TrimmedTo(all, v_end0, to, events, v_end) ==
  LET keep == Cardinality({i \in 1..Len(all) : all[i].version <= to})
  IN /\ events = SubSeq(all, 1, keep)
     /\ v_end = IF keep < Len(all) THEN all[keep + 1].version ELSE v_end0

\* C21 as stated: when getEvents stops with a positive to, its callback gets
\* the accumulated events without the trailing ones of version above to (none
\* of version <= to is removed, none above to remains), and v_end is the
\* version of the first removed event, or unchanged when none is removed.
C21_TrimRemovesBeyondTo ==
  \A i \in 1..Len(sublog) :
    sublog[i].op = "getEvents" /\ queries[sublog[i].id].to > 0 =>
      LET q == queries[sublog[i].id]
          n == Len(q.got)
      IN TrimmedTo(EventsUpTo(q.got, n), q.got[n].v_end, q.to,
                   sublog[i].data.events, sublog[i].data.v_end)

\* how often the onunsubscribe hook has run
Unsubscribes ==
  Cardinality({i \in 1..Len(calls) : calls[i].op = "onunsubscribe"})

IsSubscribeEnd(d) == d.f.t = SubscribeEnd
IsCompleteDelivered(d) ==
  /\ IsPersistentFrame(d) /\ Bit(d.f.flags, Complete) /\ d.exc = NoErr
  /\ ~(d.resub /\ ~Bit(d.f.flags, Current))

\* C22 as stated: every SubscribeEnd frame is dispatched without an exception
\* and runs the onunsubscribe hook once, whatever the state of the
\* subscription, auto-resubscribe mode included.
C22_SubscribeEndNotifies ==
  /\ \A i \in 1..Len(dispatched) :
       IsSubscribeEnd(dispatched[i]) => dispatched[i].exc = NoErr
  /\ Unsubscribes = Len(SelectSeqOf(dispatched, IsSubscribeEnd, 1))
                      + Len(SelectSeqOf(dispatched, IsCompleteDelivered, 1))

\* C23 as stated: over Event frames, Subscribe responses and SubscribeEnd
\* frames the stream version of a connection after a dispatched frame is
\* never below its value before the frame.
C23_VersionNeverDecreases ==
  \A i \in 1..Len(dispatched) :
    dispatched[i].exc = NoErr => dispatched[i].after >= dispatched[i].before

\* the step was a subscribe call with oneshot set: it wrote a one-shot
\* Subscribe message and registered a one-shot callback
OneshotIssued ==
  /\ issued'.sub = issued.sub + 1
  /\ Len(oneshotCbs') = Len(oneshotCbs) + 1

\* C24 as stated: a one-shot subscribe issued while a persistent subscription
\* is outstanding leaves that subscription's callback, accumulator and
\* auto-resubscribe mode unchanged.
C24_OneshotLeavesSubscription ==
  [][OneshotIssued /\ subCb # <<>> =>
       /\ subCb' = subCb /\ subCbData' = subCbData
       /\ resub' = resub]_vars

\* --------------- range queries and one-shot subscribes in flight together
PipeQueries == 2
PipeFrames == 4

PGetEvents == DoGetEvents(PipeQueries, 0..1, {MaxVer + 1})

PSubscribe == DoSubscribe(MaxOneshots, {0}, {Unset}, {TRUE})

PSrvSubscribe == DoSrvSubscribe(PipeFrames, MaxRecs, {FALSE})

PDeliver == DoDeliver({Len(wire)})

NextPipe ==
  \/ PGetEvents
  \/ PSubscribe
  \/ SrvHello
  \/ PSrvSubscribe
  \/ PDeliver

SpecPipe == Init /\ [][NextPipe]_vars

\* the responses handed to the first n range queries
RECURSIVE GotTotal(_)
GotTotal(n) == IF n = 0 THEN 0 ELSE GotTotal(n - 1) + Len(queries[n].got)

\* C25: with range queries and direct one-shot subscribes in flight together
\* and the server answering in request order, the k-th response a range query
\* is handed is the answer to its k-th request: it has that request's place in
\* the connection's one-shot traffic and starts where the request asked; the
\* direct one-shot callbacks get the remaining responses, each once.
C25_ResponsesReachTheirRequest ==
  /\ \A qi \in 1..Len(queries) :
       LET q == queries[qi]
       IN /\ Len(q.got) <= Len(q.sent)
          /\ \A k \in 1..Len(q.got) :
               /\ q.gotAt[k] = q.sent[k]
               /\ q.got[k].v_start = LogVersion(LogIndexAt(q.asked[k]))
  /\ \A i \in 1..Len(OneshotCalls) :
       /\ OneshotCalls[i].data.v_start = LogVersion(LogIndexAt(0))
       /\ \A j \in 1..Len(OneshotCalls) :
            OneshotCalls[i].id = OneshotCalls[j].id => i = j
  /\ Alive => Len(OneshotFrames) = Len(OneshotCalls) + GotTotal(Len(queries))

\* C25 witness: two range queries in flight together; the first was handed
\* the first and third one-shot responses of the connection, the second the
\* one in between, which started at another version
C25_Witness ==
  /\ Len(queries) = 2
  /\ queries[1].gotAt = <<1, 3>>
  /\ Len(queries[2].got) >= 1 /\ queries[2].gotAt[1] = 2
  /\ queries[2].got[1].v_start # queries[1].got[1].v_start

====
